---- MODULE Spec2Model ----
(***************************************************************************)
(* Model of the Hongdle (Korean Wordle) solver: the jamo decomposer        *)
(* (src/src/word_processor.py), the word database query                    *)
(* (src/src/word_database.py) and the cumulative-condition game engine     *)
(* (src/src/game_engine.py).                                               *)
(*                                                                         *)
(* Conventions.                                                            *)
(*  - A character is the integer ord(char) - ord('가'); the syllable       *)
(*    blocks 가..힣 are 0..11171, anything else is a non-syllable.         *)
(*  - A word is a sequence of characters.                                  *)
(*  - A jamo is written by its romanised name ("g" = ㄱ, "a" = ㅏ, ...).   *)
(*  - Python positions are kept 0-based: position i of a list is element   *)
(*    i+1 of the TLA+ sequence.                                            *)
(*  - Python's None for word_length is the value None; db_fallback is a     *)
(*    record that says whether a fallback database is present.             *)
(*  - The session variables are the fields of the GameEngine object the    *)
(*    next call is made on; other_session holds the fields of a second     *)
(*    GameEngine object over the same databases, when there is one.        *)
(***************************************************************************)
EXTENDS Integers, Sequences, FiniteSets, TLC

VARIABLES db, db_fallback, turns, word_length, green_positions, yellow_jamos,
          yellow_excluded_positions, black_positions, pure_black_jamos,
          jamo_exact_counts, ret, other_session

vars == <<db, db_fallback, turns, word_length, green_positions, yellow_jamos,
          yellow_excluded_positions, black_positions, pure_black_jamos,
          jamo_exact_counts, ret, other_session>>

None == -1

\* other_session of an engine that runs alone.
NoOtherSession == <<>>

(***************************************************************************)
(* WordProcessor tables                                                    *)
(***************************************************************************)
CHOSUNG == <<"g", "gg", "n", "d", "dd", "r", "m", "b", "bb", "s", "ss", "ng",
             "j", "jj", "ch", "k", "t", "p", "h">>

JUNGSUNG == <<"a", "ae", "ya", "yae", "eo", "e", "yeo", "ye", "o", "wa", "wae",
              "oe", "yo", "u", "wo", "we", "wi", "yu", "eu", "ui", "i">>

JONGSUNG == <<"", "g", "gg", "gs", "n", "nj", "nh", "d", "r", "rg", "rm", "rb",
              "rs", "rt", "rp", "rh", "m", "b", "bs", "s", "ss", "ng", "j", "ch",
              "k", "t", "p", "h">>

BASIC_VOWELS == {"a", "ya", "eo", "yeo", "o", "yo", "u", "yu", "eu", "i"}

COMPLEX_VOWELS == {"ae", "e", "yae", "ye", "wa", "wae", "oe", "wo", "we", "wi", "ui"}

DECOMPOSE_RULES ==
    [v \in COMPLEX_VOWELS |->
        CASE v = "ae"  -> <<"a", "i">>
          [] v = "e"   -> <<"eo", "i">>
          [] v = "yae" -> <<"ya", "i">>
          [] v = "ye"  -> <<"yeo", "i">>
          [] v = "wa"  -> <<"o", "a">>
          [] v = "wae" -> <<"o", "a", "i">>
          [] v = "oe"  -> <<"o", "i">>
          [] v = "wo"  -> <<"u", "eo">>
          [] v = "we"  -> <<"u", "eo", "i">>
          [] v = "wi"  -> <<"u", "i">>
          [] v = "ui"  -> <<"eu", "i">>]

BASIC_CONSONANTS == {"g", "n", "d", "r", "m", "b", "s", "ng", "j", "ch", "k", "t",
                     "p", "h"}

DOUBLE_CONSONANTS == {"gg", "dd", "bb", "ss", "jj"}

COMPLEX_FINALS == {"gs", "nj", "nh", "rg", "rm", "rb", "rs", "rt", "rp", "rh", "bs"}

DOUBLE_CONSONANT_RULES ==
    [c \in DOUBLE_CONSONANTS |->
        CASE c = "gg" -> <<"g", "g">>
          [] c = "dd" -> <<"d", "d">>
          [] c = "bb" -> <<"b", "b">>
          [] c = "ss" -> <<"s", "s">>
          [] c = "jj" -> <<"j", "j">>]

COMPLEX_FINAL_RULES ==
    [c \in COMPLEX_FINALS |->
        CASE c = "gs" -> <<"g", "s">>
          [] c = "nj" -> <<"n", "j">>
          [] c = "nh" -> <<"n", "h">>
          [] c = "rg" -> <<"r", "g">>
          [] c = "rm" -> <<"r", "m">>
          [] c = "rb" -> <<"r", "b">>
          [] c = "rs" -> <<"r", "s">>
          [] c = "rt" -> <<"r", "t">>
          [] c = "rp" -> <<"r", "p">>
          [] c = "rh" -> <<"r", "h">>
          [] c = "bs" -> <<"b", "s">>]

\* The last syllable block 힣, as an offset from 가.
LastSyllable == 11171

\* IsSyllable with the upper end of the range left out.
IsSyllableBelowLast(char) == 0 <= char /\ char < LastSyllable

\* '가' <= char <= '힣'
IsSyllable(char) == 0 <= char /\ char <= LastSyllable

\* JongIdx with the radix of the vowels.
JongIdxRadix21(code) == code % 21

\* The three structural indices of a syllable block (0-based, as in Python).
JongIdx(code) == code % 28
JungIdx(code) == ((code - JongIdx(code)) \div 28) % 21
ChoIdx(code) == ((code - JongIdx(code) - JungIdx(code) * 28) \div 28) \div 21

\* 1. initial consonant: a doubled consonant becomes two base consonants.
DecomposeChosung(code) ==
    LET chosung == CHOSUNG[ChoIdx(code) + 1]
    IN  IF chosung \in DOUBLE_CONSONANTS
        THEN DOUBLE_CONSONANT_RULES[chosung]
        ELSE <<chosung>>

\* DecomposeJungsung that keeps a compound vowel as one jamo.
DecomposeJungsungUnexpanded(code) == <<JUNGSUNG[JungIdx(code) + 1]>>

\* 2. vowel: a compound vowel becomes its base vowels.
DecomposeJungsung(code) ==
    LET vowel == JUNGSUNG[JungIdx(code) + 1]
    IN  IF vowel \in COMPLEX_VOWELS
        THEN DECOMPOSE_RULES[vowel]
        ELSE <<vowel>>

\* DecomposeJongsung that keeps a doubled or cluster final as one jamo.
DecomposeJongsungUnexpanded(code) ==
    IF JongIdx(code) > 0 THEN <<JONGSUNG[JongIdx(code) + 1]>> ELSE <<>>

\* 3. final consonant, when there is one.
DecomposeJongsung(code) ==
    IF JongIdx(code) > 0
    THEN LET jongsung == JONGSUNG[JongIdx(code) + 1]
         IN  IF jongsung \in DOUBLE_CONSONANTS
             THEN DOUBLE_CONSONANT_RULES[jongsung]
             ELSE IF jongsung \in COMPLEX_FINALS
                  THEN COMPLEX_FINAL_RULES[jongsung]
                  ELSE <<jongsung>>
    ELSE <<>>

\* DecomposeChar that passes a character outside 가..힣 on as one jamo.
DecomposeCharKeepingOthers(char) ==
    IF IsSyllable(char)
    THEN DecomposeChosung(char) \o DecomposeJungsung(char) \o DecomposeJongsung(char)
    ELSE <<"?">>

\* One iteration of the loop of decompose_hangul: what one character adds
\* to the result (nothing for a character outside 가..힣).
DecomposeChar(char) ==
    IF IsSyllable(char)
    THEN DecomposeChosung(char) \o DecomposeJungsung(char) \o DecomposeJongsung(char)
    ELSE <<>>

RECURSIVE decompose_hangul(_)
decompose_hangul(word) ==
    IF word = <<>>
    THEN <<>>
    ELSE DecomposeChar(Head(word)) \o decompose_hangul(Tail(word))

\* create_word_data plus the frequency the corpus builder attaches.
create_word_data(word, frequency) ==
    [word |-> word, length |-> Len(decompose_hangul(word)),
     jamos |-> decompose_hangul(word), frequency |-> frequency]

(***************************************************************************)
(* WordDatabase: the words table and its query by length                   *)
(***************************************************************************)
\* Text comparison of two words (SQLite's default BINARY collation compares
\* the encoded text, i.e. character by character, a proper prefix first).
RECURSIVE WordLess(_, _)
WordLess(w1, w2) ==
    IF w2 = <<>> THEN FALSE
    ELSE IF w1 = <<>> THEN TRUE
    ELSE IF Head(w1) # Head(w2) THEN Head(w1) < Head(w2)
    ELSE WordLess(Tail(w1), Tail(w2))

\* ORDER BY frequency DESC, word
RowBefore(r1, r2) ==
    \/ r1.frequency > r2.frequency
    \/ r1.frequency = r2.frequency /\ WordLess(r1.word, r2.word)

RECURSIVE OrderRows(_)
OrderRows(rows) ==
    IF rows = {}
    THEN <<>>
    ELSE LET first == CHOOSE r \in rows : \A o \in rows \ {r} : RowBefore(r, o)
         IN  <<first>> \o OrderRows(rows \ {first})

\* get_words_by_length with the rows in the opposite order.
get_words_by_length_ascending(table, length) ==
    LET rows == OrderRows({r \in table : r.length = length})
    IN  [i \in 1..Len(rows) |-> rows[Len(rows) + 1 - i]]

\* SELECT ... FROM words WHERE length = ? ORDER BY frequency DESC, word
\* A table is the set of its rows (word is UNIQUE).
get_words_by_length(table, length) ==
    OrderRows({r \in table : r.length = length})

(***************************************************************************)
(* GameEngine: the accumulated conditions                                  *)
(***************************************************************************)
\* d[k] = v on a dict d
DictSet(d, k, v) == [x \in (DOMAIN d) \cup {k} |-> IF x = k THEN v ELSE d[x]]

EmptyDict == <<>>

\* The six condition maps of a freshly reset engine.
EmptyConditions ==
    [green_positions |-> EmptyDict,
     yellow_jamos |-> {},
     yellow_excluded_positions |-> EmptyDict,
     black_positions |-> EmptyDict,
     pure_black_jamos |-> {},
     jamo_exact_counts |-> EmptyDict]

\* The six condition maps of the engine, as one record.
Conditions ==
    [green_positions |-> green_positions,
     yellow_jamos |-> yellow_jamos,
     yellow_excluded_positions |-> yellow_excluded_positions,
     black_positions |-> black_positions,
     pure_black_jamos |-> pure_black_jamos,
     jamo_exact_counts |-> jamo_exact_counts]

\* zip(jamos, pattern) stops at the shorter of the two.
ZipLen(jamos, pattern) ==
    IF Len(jamos) <= Len(pattern) THEN Len(jamos) ELSE Len(pattern)

\* CollectAt that records no condition for a Black position.
CollectAtBlackUnrecorded(c, i, jamo, result) ==
    IF result = "G"
    THEN [c EXCEPT !.green_positions = DictSet(@, i, jamo)]
    ELSE IF result = "Y"
    THEN [c EXCEPT
            !.yellow_jamos = @ \cup {jamo},
            !.yellow_excluded_positions =
                DictSet(@, jamo,
                        Append(IF jamo \in DOMAIN @ THEN @[jamo] ELSE <<>>, i))]
    ELSE c

\* Step 1, one iteration: the condition recorded for position i.
CollectAt(c, i, jamo, result) ==
    IF result = "G"
    THEN [c EXCEPT !.green_positions = DictSet(@, i, jamo)]
    ELSE IF result = "Y"
    THEN [c EXCEPT
            !.yellow_jamos = @ \cup {jamo},
            !.yellow_excluded_positions =
                DictSet(@, jamo,
                        Append(IF jamo \in DOMAIN @ THEN @[jamo] ELSE <<>>, i))]
    ELSE IF result = "B"
    THEN [c EXCEPT
            !.black_positions =
                DictSet(@, i, (IF i \in DOMAIN @ THEN @[i] ELSE {}) \cup {jamo})]
    ELSE c

\* Step 1: the loop over the positions i, i+1, ...
RECURSIVE CollectBasic(_, _, _, _)
CollectBasic(c, jamos, pattern, i) ==
    IF i >= ZipLen(jamos, pattern)
    THEN c
    ELSE CollectBasic(CollectAt(c, i, jamos[i + 1], pattern[i + 1]),
                      jamos, pattern, i + 1)

FeedbackSymbols == {"G", "Y", "B"}

\* Step 2: jamo_results[jamo][result] += 1 raises KeyError for a result
\* that is none of G, Y, B.
TallyRaises(jamos, pattern) ==
    \E i \in 1..ZipLen(jamos, pattern) : pattern[i] \notin FeedbackSymbols

\* Step 2: jamo_results[jamo][result]
JamoResult(jamos, pattern, jamo, result) ==
    Cardinality({i \in 1..ZipLen(jamos, pattern) :
                    jamos[i] = jamo /\ pattern[i] = result})

Max(a, b) == IF a >= b THEN a ELSE b

\* ApplyRule with every Black taken as total absence, whatever else the
\* turn says about the jamo.
ApplyRuleBlackIsAbsent(c, jamo, g_count, y_count, b_count) ==
    IF b_count > 0
    THEN [c EXCEPT !.pure_black_jamos = @ \cup {jamo}]
    ELSE c

\* ApplyRule that records no exact count for a jamo scored both Green or
\* Yellow and Black in the turn.
ApplyRuleNoExactCount(c, jamo, g_count, y_count, b_count) ==
    IF y_count > 0 \/ g_count > 0
    THEN c
    ELSE IF b_count > 0
         THEN [c EXCEPT !.pure_black_jamos = @ \cup {jamo}]
         ELSE c

\* Step 3, one iteration: the rule for one jamo of the turn.
ApplyRule(c, jamo, g_count, y_count, b_count) ==
    IF y_count > 0 \/ g_count > 0
    THEN IF b_count > 0
         THEN [c EXCEPT !.jamo_exact_counts = DictSet(@, jamo, g_count + y_count)]
         ELSE IF jamo \in DOMAIN c.jamo_exact_counts
              THEN [c EXCEPT !.jamo_exact_counts =
                        DictSet(@, jamo, Max(@[jamo], g_count + y_count))]
              ELSE c
    ELSE IF b_count > 0
         THEN [c EXCEPT !.pure_black_jamos = @ \cup {jamo}]
         ELSE c

\* Step 3: the loop over jamo_results, whose keys are the jamos of the turn
\* in the order of their first occurrence.
RECURSIVE ApplyRules(_, _, _, _)
ApplyRules(c, jamos, pattern, i) ==
    IF i >= ZipLen(jamos, pattern)
    THEN c
    ELSE IF \E j \in 1..i : jamos[j] = jamos[i + 1]
         THEN ApplyRules(c, jamos, pattern, i + 1)
         ELSE ApplyRules(
                ApplyRule(c, jamos[i + 1],
                          JamoResult(jamos, pattern, jamos[i + 1], "G"),
                          JamoResult(jamos, pattern, jamos[i + 1], "Y"),
                          JamoResult(jamos, pattern, jamos[i + 1], "B")),
                jamos, pattern, i + 1)

\* _update_conditions: the conditions it leaves behind. When step 2 raises,
\* step 1 has already been applied and step 3 never runs.
UpdateConditions(c, jamos, pattern) ==
    IF TallyRaises(jamos, pattern)
    THEN CollectBasic(c, jamos, pattern, 0)
    ELSE ApplyRules(CollectBasic(c, jamos, pattern, 0), jamos, pattern, 0)

\* Counter(jamos_list)[jamo]
JamoCount(jamos_list, jamo) ==
    Cardinality({i \in 1..Len(jamos_list) : jamos_list[i] = jamo})

\* jamo in jamos_list
InList(jamo, jamos_list) == \E i \in 1..Len(jamos_list) : jamos_list[i] = jamo

\* 1. Green: the confirmed positions
CheckGreen(c, jamos_list) ==
    \A pos \in DOMAIN c.green_positions :
        ~(pos >= Len(jamos_list) \/ jamos_list[pos + 1] # c.green_positions[pos])

\* 2. Black at a position
CheckBlackPositions(c, jamos_list) ==
    \A pos \in DOMAIN c.black_positions :
        ~(pos < Len(jamos_list) /\ jamos_list[pos + 1] \in c.black_positions[pos])

\* 3. Pure black: jamos that never occur
CheckPureBlack(c, jamos_list) ==
    \A black_jamo \in c.pure_black_jamos : ~InList(black_jamo, jamos_list)

\* 4. Yellow: jamos that must occur
CheckYellow(c, jamos_list) ==
    \A yellow_jamo \in c.yellow_jamos : InList(yellow_jamo, jamos_list)

\* 5. Yellow: excluded positions
CheckYellowExcluded(c, jamos_list) ==
    \A yellow_jamo \in DOMAIN c.yellow_excluded_positions :
        \A k \in 1..Len(c.yellow_excluded_positions[yellow_jamo]) :
            LET pos == c.yellow_excluded_positions[yellow_jamo][k]
            IN  ~(pos < Len(jamos_list) /\ jamos_list[pos + 1] = yellow_jamo)

\* 6. Exact counts
CheckExactCounts(c, jamos_list) ==
    \A jamo \in DOMAIN c.jamo_exact_counts :
        JamoCount(jamos_list, jamo) = c.jamo_exact_counts[jamo]

\* _check_word_conditions without check 6.
CheckWordConditionsWithoutExactCounts(c, jamos_list) ==
    /\ CheckGreen(c, jamos_list)
    /\ CheckBlackPositions(c, jamos_list)
    /\ CheckPureBlack(c, jamos_list)
    /\ CheckYellow(c, jamos_list)
    /\ CheckYellowExcluded(c, jamos_list)

\* _check_word_conditions
CheckWordConditions(c, jamos_list) ==
    /\ CheckGreen(c, jamos_list)
    /\ CheckBlackPositions(c, jamos_list)
    /\ CheckPureBlack(c, jamos_list)
    /\ CheckYellow(c, jamos_list)
    /\ CheckYellowExcluded(c, jamos_list)
    /\ CheckExactCounts(c, jamos_list)

\* The loop of _find_candidates over the rows of one database: the words of
\* the rows that satisfy the conditions, in the order of the rows.
RECURSIVE MatchingWords(_, _)
MatchingWords(c, rows) ==
    IF rows = <<>>
    THEN <<>>
    ELSE (IF CheckWordConditions(c, Head(rows).jamos)
          THEN <<Head(rows).word>>
          ELSE <<>>) \o MatchingWords(c, Tail(rows))

\* _find_candidates that searches the fallback whenever there is one.
FindCandidatesInBothCorpora(primary, fallback, length, c) ==
    LET candidates == MatchingWords(c, get_words_by_length(primary, length))
    IN  IF ~fallback.present
        THEN candidates
        ELSE candidates \o MatchingWords(c, get_words_by_length(fallback.table, length))

\* _find_candidates
FindCandidates(primary, fallback, length, c) ==
    LET candidates == MatchingWords(c, get_words_by_length(primary, length))
    IN  IF candidates # <<>> \/ ~fallback.present
        THEN candidates
        ELSE candidates \o MatchingWords(c, get_words_by_length(fallback.table, length))

(***************************************************************************)
(* Inputs of the model                                                     *)
(***************************************************************************)
\* The syllable block with the given indices into CHOSUNG, JUNGSUNG and
\* JONGSUNG (0-based), as an offset from 가.
Syllable(cho_idx, jung_idx, jong_idx) == (cho_idx * 21 + jung_idx) * 28 + jong_idx

\* The syllable blocks used below.
Ga == Syllable(0, 0, 0)
Gag == Syllable(0, 0, 1)
Gan == Syllable(0, 0, 4)
Gad == Syllable(0, 0, 7)
Gal == Syllable(0, 0, 8)
GGag == Syllable(1, 0, 1)
Na == Syllable(2, 0, 0)
Nag == Syllable(2, 0, 1)
Nan == Syllable(2, 0, 4)
Non == Syllable(2, 8, 4)
Nol == Syllable(2, 8, 8)
Dol == Syllable(3, 8, 8)

\* The guesses add_turn is called with: 각 (g,a,g), 간 (g,a,n), 갈 (g,a,r),
\* 깍 (g,g,a,g), and the one-character string of the character after 힣
\* (no jamo at all).
GuessWords == {<<Gag>>, <<Gan>>, <<Gal>>, <<GGag>>, <<LastSyllable + 1>>}

\* The feedback patterns add_turn is called with. "X" stands for any
\* character other than G, Y and B.
ResultPatterns ==
    {<<"G", "G", "G">>, <<"G", "G", "B">>, <<"Y", "G", "B">>, <<"B", "G", "B">>,
     <<"Y", "G", "Y">>, <<"B", "B", "B">>, <<"Y", "B", "B">>, <<"B", "G", "Y">>,
     <<"B", "B", "G">>, <<"G", "X", "B">>,
     <<"Y", "B", "G", "B">>, <<"Y", "Y", "G", "B">>, <<"G", "G", "G", "G">>,
     <<"B", "B", "G", "B">>,
     <<>>}

\* The databases an engine is constructed over: tables filled by the corpus
\* builder from (word, frequency) pairs.
PrimaryTables ==
    {{create_word_data(<<Gan>>, 5), create_word_data(<<Gag>>, 3),
      create_word_data(<<Nan>>, 3), create_word_data(<<GGag>>, 2),
      create_word_data(<<Ga, Na>>, 1)},
     {create_word_data(<<Non>>, 3), create_word_data(<<Dol>>, 2),
      create_word_data(<<Nol>>, 2), create_word_data(<<Gan>>, 2), create_word_data(<<Gag>>, 2),
      create_word_data(<<GGag>>, 1)}}

NoFallback == [present |-> FALSE, table |-> {}]

FallbackTables ==
    {{create_word_data(<<Gad>>, 4), create_word_data(<<Gal>>, 4),
      create_word_data(<<Gag>>, 1), create_word_data(<<Nag>>, 2),
      create_word_data(<<Ga, Ga>>, 1)}}

\* Bound of the model: add_turn is not called on a session that already
\* holds this many turns.
MaxTurns == 2

(***************************************************************************)
(* GameEngine: the operations                                              *)
(***************************************************************************)
\* The outcome of the last call: the operation, how it ended ("none" for
\* no return value, "candidates" for a returned list, or the exception
\* raised) and the returned list.
Returned(op, kind, value) == [op |-> op, kind |-> kind, value |-> value]

\* __init__: the databases are opened and reset_game() is called.
Init ==
    /\ db \in PrimaryTables
    /\ db_fallback \in {NoFallback} \cup
                       {[present |-> TRUE, table |-> t] : t \in FallbackTables}
    /\ turns = <<>>
    /\ word_length = None
    /\ green_positions = EmptyDict
    /\ yellow_jamos = {}
    /\ yellow_excluded_positions = EmptyDict
    /\ black_positions = EmptyDict
    /\ pure_black_jamos = {}
    /\ jamo_exact_counts = EmptyDict
    /\ ret = Returned("__init__", "none", <<>>)
    /\ other_session = NoOtherSession

\* reset_game that forgets to clear word_length.
reset_game_keeping_word_length ==
    /\ turns' = <<>>
    /\ green_positions' = EmptyDict
    /\ yellow_jamos' = {}
    /\ yellow_excluded_positions' = EmptyDict
    /\ black_positions' = EmptyDict
    /\ pure_black_jamos' = {}
    /\ jamo_exact_counts' = EmptyDict
    /\ ret' = Returned("reset_game", "none", <<>>)
    /\ UNCHANGED <<other_session, db, db_fallback, word_length>>

\* The fields of an engine after __init__.
NewSession ==
    [turns |-> <<>>, word_length |-> None, conditions |-> EmptyConditions,
     ret |-> Returned("__init__", "none", <<>>)]

\* reset_game on an engine whose fields are shared by every engine.
reset_game_of_every_session ==
    /\ turns' = <<>>
    /\ word_length' = None
    /\ green_positions' = EmptyDict
    /\ yellow_jamos' = {}
    /\ yellow_excluded_positions' = EmptyDict
    /\ black_positions' = EmptyDict
    /\ pure_black_jamos' = {}
    /\ jamo_exact_counts' = EmptyDict
    /\ ret' = Returned("reset_game", "none", <<>>)
    /\ other_session' = IF other_session = NoOtherSession
                        THEN other_session
                        ELSE [NewSession EXCEPT !.ret = other_session.ret]
    /\ UNCHANGED <<db, db_fallback>>

reset_game ==
    /\ turns' = <<>>
    /\ word_length' = None
    /\ green_positions' = EmptyDict
    /\ yellow_jamos' = {}
    /\ yellow_excluded_positions' = EmptyDict
    /\ black_positions' = EmptyDict
    /\ pure_black_jamos' = {}
    /\ jamo_exact_counts' = EmptyDict
    /\ ret' = Returned("reset_game", "none", <<>>)
    /\ UNCHANGED <<other_session, db, db_fallback>>

\* The value word_length has after the length check of add_turn.
LengthAfterCheck(length, jamos) == IF length = None THEN Len(jamos) ELSE length

\* WordLengthMismatch without the comparison with the fixed word_length.
WordLengthNeverChecked(length, jamos) == FALSE

\* add_turn raises "단어 길이 불일치"
WordLengthMismatch(length, jamos) == length # None /\ length # Len(jamos)

\* add_turn raises "자모음 개수와 패턴 길이 불일치"
PatternLengthMismatch(jamos, result_pattern) == Len(jamos) # Len(result_pattern)

TurnInfo(n, guess_word, jamos, result_pattern) ==
    [turn |-> n, word |-> guess_word, jamos |-> jamos, pattern |-> result_pattern]

SetConditions(c) ==
    /\ green_positions' = c.green_positions
    /\ yellow_jamos' = c.yellow_jamos
    /\ yellow_excluded_positions' = c.yellow_excluded_positions
    /\ black_positions' = c.black_positions
    /\ pure_black_jamos' = c.pure_black_jamos
    /\ jamo_exact_counts' = c.jamo_exact_counts

add_turn(guess_word, result_pattern) ==
    LET jamos == decompose_hangul(guess_word)
    IN  /\ Len(turns) < MaxTurns
        /\ IF WordLengthMismatch(word_length, jamos)
           THEN /\ ret' = Returned("add_turn", "ValueError: word length", <<>>)
                /\ UNCHANGED <<turns, word_length, green_positions, yellow_jamos,
                               yellow_excluded_positions, black_positions,
                               pure_black_jamos, jamo_exact_counts>>
           ELSE IF PatternLengthMismatch(jamos, result_pattern)
           THEN /\ word_length' = LengthAfterCheck(word_length, jamos)
                /\ ret' = Returned("add_turn", "ValueError: pattern length", <<>>)
                /\ UNCHANGED <<turns, green_positions, yellow_jamos,
                               yellow_excluded_positions, black_positions,
                               pure_black_jamos, jamo_exact_counts>>
           ELSE LET c == UpdateConditions(Conditions, jamos, result_pattern)
                IN  /\ word_length' = LengthAfterCheck(word_length, jamos)
                    /\ turns' = Append(turns, TurnInfo(Len(turns) + 1, guess_word,
                                                       jamos, result_pattern))
                    /\ SetConditions(c)
                    /\ ret' = IF TallyRaises(jamos, result_pattern)
                              THEN Returned("add_turn", "KeyError", <<>>)
                              ELSE Returned("add_turn", "candidates",
                                            FindCandidates(db, db_fallback,
                                                           word_length', c))
        /\ UNCHANGED <<other_session, db, db_fallback>>

\* not self.word_length: None and 0 are both false.
NoWordLength(length) == length = None \/ length = 0

\* The list get_current_candidates returns.
CurrentCandidates(primary, fallback, length, c) ==
    IF NoWordLength(length)
    THEN <<>>
    ELSE FindCandidates(primary, fallback, length, c)

get_current_candidates ==
    /\ ret' = Returned("get_current_candidates", "candidates",
                       CurrentCandidates(db, db_fallback, word_length, Conditions))
    /\ UNCHANGED <<other_session, db, db_fallback, turns, word_length, green_positions,
                   yellow_jamos, yellow_excluded_positions, black_positions,
                   pure_black_jamos, jamo_exact_counts>>

Next ==
    \/ reset_game
    \/ get_current_candidates
    \/ \E guess_word \in GuessWords, result_pattern \in ResultPatterns :
            add_turn(guess_word, result_pattern)

Spec == Init /\ [][Next]_vars

(***************************************************************************)
(* Properties                                                              *)
(***************************************************************************)
\* Every recorded turn carries a pattern of G, Y and B only, i.e. the
\* history is that of a sequence of accepted turns.
AllTurnsAccepted ==
    \A k \in 1..Len(turns) :
        \A i \in 1..Len(turns[k].pattern) : turns[k].pattern[i] \in FeedbackSymbols

\* The turn history, word_length and the six condition maps.
session == <<turns, word_length, green_positions, yellow_jamos,
             yellow_excluded_positions, black_positions, pure_black_jamos,
             jamo_exact_counts>>

\* A step in which add_turn returned a candidate list.
TurnAccepted == ret'.op = "add_turn" /\ ret'.kind = "candidates" /\ turns' # turns

\* C1 (as claimed): the candidate list add_turn returns for turn k+1 is
\* never longer than the list returned for turn k (the candidates of the
\* conditions accumulated by the k accepted turns).
C1_Monotonicity ==
    [][(TurnAccepted /\ turns # <<>> /\ AllTurnsAccepted)
        => Len(ret'.value)
             <= Len(FindCandidates(db, db_fallback, word_length, Conditions))]_vars

\* C2 (as claimed): add_turn with a guess whose jamo count differs from the
\* length of the pattern is rejected with an error and leaves the turn
\* history, word_length and the six condition maps as they were.
C2_PatternLengthRejectionKeepsState ==
    [][\A guess_word \in GuessWords, result_pattern \in ResultPatterns :
         (/\ Len(decompose_hangul(guess_word)) # Len(result_pattern)
          /\ add_turn(guess_word, result_pattern))
         => (ret'.kind \notin {"none", "candidates"} /\ UNCHANGED session)]_vars

\* C3: the first accepted add_turn fixes word_length to the jamo count of
\* its guess, and once a turn is recorded every add_turn whose guess has a
\* different jamo count is rejected with the word-length error and leaves
\* the turn history, word_length and the six condition maps unchanged
\* (stated as: an add_turn step that is not such a rejection is not a call
\* with a guess of a different jamo count).
C3_WordLengthFixedByFirstTurn ==
    [][/\ (turns = <<>> /\ TurnAccepted)
          => word_length' = Len(decompose_hangul(turns'[1].word))
       /\ (/\ turns # <<>>
           /\ ret'.op = "add_turn"
           /\ ~(ret'.kind = "ValueError: word length" /\ UNCHANGED session))
          => \A guess_word \in GuessWords :
                Len(decompose_hangul(guess_word)) # Len(turns[1].jamos)
                => \A result_pattern \in ResultPatterns :
                        ~add_turn(guess_word, result_pattern)]_vars

\* C3 witness: a session with one accepted turn, of a word of 3 jamos, has
\* just rejected a guess for its word length.
C3_Witness ==
    /\ Len(turns) = 1
    /\ AllTurnsAccepted
    /\ word_length = 3
    /\ word_length = Len(turns[1].jamos)
    /\ ret.op = "add_turn"
    /\ ret.kind = "ValueError: word length"

\* The pattern holds a character other than G, Y and B.
InvalidPattern(result_pattern) ==
    \E i \in 1..Len(result_pattern) : result_pattern[i] \notin FeedbackSymbols

\* C4 (as claimed): add_turn with a pattern of the correct length holding a
\* character other than G, Y, B is rejected, and the turn history,
\* word_length and the six condition maps are left as they were.
C4_InvalidSymbolRejectedBeforeMutation ==
    [][\A guess_word \in GuessWords, result_pattern \in ResultPatterns :
         (/\ Len(decompose_hangul(guess_word)) = Len(result_pattern)
          /\ InvalidPattern(result_pattern)
          /\ add_turn(guess_word, result_pattern))
         => (ret'.kind \notin {"none", "candidates"} /\ UNCHANGED session)]_vars

\* C5 (as claimed): when exact_count[a] = n is already resolved and an
\* accepted turn has, for a, Green+Yellow = m > 0 and Black > 0 with m # n,
\* the condition is surfaced (add_turn does not return normally) and
\* exact_count[a] is still n afterwards.
C5_ContradictoryExactCountKept ==
    [][\A guess_word \in GuessWords, result_pattern \in ResultPatterns :
         \A jamo \in DOMAIN jamo_exact_counts :
            LET jamos == decompose_hangul(guess_word)
                m == JamoResult(jamos, result_pattern, jamo, "G")
                       + JamoResult(jamos, result_pattern, jamo, "Y")
            IN  (/\ add_turn(guess_word, result_pattern)
                 /\ turns' # turns
                 /\ ~InvalidPattern(result_pattern)
                 /\ m > 0
                 /\ JamoResult(jamos, result_pattern, jamo, "B") > 0
                 /\ m # jamo_exact_counts[jamo])
                => (/\ ret'.kind # "candidates"
                    /\ jamo \in DOMAIN jamo_exact_counts'
                    /\ jamo_exact_counts'[jamo] = jamo_exact_counts[jamo])]_vars

\* The conditions a fresh session holds after the turns of a history.
RECURSIVE Replay(_)
Replay(history) ==
    IF history = <<>>
    THEN EmptyConditions
    ELSE UpdateConditions(Replay(SubSeq(history, 1, Len(history) - 1)),
                          history[Len(history)].jamos,
                          history[Len(history)].pattern)

\* A step that removes the last turn and leaves the session as a fresh
\* session is after the remaining turns (Empty when none remains).
UndoStep ==
    /\ turns' = SubSeq(turns, 1, Len(turns) - 1)
    /\ [green_positions |-> green_positions',
        yellow_jamos |-> yellow_jamos',
        yellow_excluded_positions |-> yellow_excluded_positions',
        black_positions |-> black_positions',
        pure_black_jamos |-> pure_black_jamos',
        jamo_exact_counts |-> jamo_exact_counts'] = Replay(turns')
    /\ word_length' = IF turns' = <<>> THEN None ELSE Len(turns'[1].jamos)

\* C6 (as claimed): the session exposes an undo operation: after accepted
\* turns A and B some operation leads to the turn history, Constraint Set
\* and candidates of a fresh session after A alone, and after a single turn
\* to the Empty state.
C6_UndoExposed ==
    (turns # <<>> /\ AllTurnsAccepted) => ENABLED (Next /\ UndoStep)

\* The positions (0-based) at which a turn scored the jamo with a result.
ScoredAt(turn, jamo, result) ==
    {i \in 0..(Len(turn.jamos) - 1) :
        turn.jamos[i + 1] = jamo /\ turn.pattern[i + 1] = result}

\* The conditions without what the jamo contributed to them.
WithoutJamo(c, jamo) ==
    [green_positions |->
        [pos \in {q \in DOMAIN c.green_positions : c.green_positions[q] # jamo}
            |-> c.green_positions[pos]],
     yellow_jamos |-> c.yellow_jamos \ {jamo},
     yellow_excluded_positions |->
        [j \in (DOMAIN c.yellow_excluded_positions) \ {jamo}
            |-> c.yellow_excluded_positions[j]],
     black_positions |->
        [pos \in DOMAIN c.black_positions |-> c.black_positions[pos] \ {jamo}],
     pure_black_jamos |-> c.pure_black_jamos \ {jamo},
     jamo_exact_counts |->
        [j \in (DOMAIN c.jamo_exact_counts) \ {jamo} |-> c.jamo_exact_counts[j]]]

\* The jamos candidate sequences are drawn from.
CandidateJamos == {"g", "a", "n", "r"}

\* Every jamo sequence of a length over CandidateJamos.
CandidateSequences(length) == [1..length -> CandidateJamos]

\* The session holds one accepted turn, in which the jamo occurs exactly
\* twice, once scored Yellow and once scored Black.
YellowAndBlackOnce(jamo) ==
    /\ Len(turns) = 1
    /\ AllTurnsAccepted
    /\ JamoCount(turns[1].jamos, jamo) = 2
    /\ Cardinality(ScoredAt(turns[1], jamo, "Y")) = 1
    /\ Cardinality(ScoredAt(turns[1], jamo, "B")) = 1

\* C7 (as claimed): after one turn whose guess holds a jamo exactly twice,
\* once Yellow and once Black, exact_count[jamo] = 1, the jamo is not pure
\* black, every sequence holding the jamo once at a position other than the
\* Yellow one (and meeting the conditions of the other jamos) matches, and
\* every sequence holding it twice does not.
C7_AsymmetricBlack ==
    \A jamo \in CandidateJamos :
        YellowAndBlackOnce(jamo)
        => /\ jamo \in DOMAIN jamo_exact_counts
           /\ jamo_exact_counts[jamo] = 1
           /\ jamo \notin pure_black_jamos
           /\ \A cand \in CandidateSequences(word_length) :
                /\ (/\ JamoCount(cand, jamo) = 1
                    /\ \A pos \in ScoredAt(turns[1], jamo, "Y") : cand[pos + 1] # jamo
                    /\ CheckWordConditions(WithoutJamo(Conditions, jamo), cand))
                   => CheckWordConditions(Conditions, cand)
                /\ JamoCount(cand, jamo) = 2 => ~CheckWordConditions(Conditions, cand)

\* C7 (amended): as C7, for the sequences that hold the jamo once at a
\* position other than the Yellow-scored and the Black-scored one.
C7_AsymmetricBlackAmended ==
    \A jamo \in CandidateJamos :
        YellowAndBlackOnce(jamo)
        => /\ jamo \in DOMAIN jamo_exact_counts
           /\ jamo_exact_counts[jamo] = 1
           /\ jamo \notin pure_black_jamos
           /\ \A cand \in CandidateSequences(word_length) :
                /\ (/\ JamoCount(cand, jamo) = 1
                    /\ \A pos \in ScoredAt(turns[1], jamo, "Y") : cand[pos + 1] # jamo
                    /\ \A pos \in ScoredAt(turns[1], jamo, "B") : cand[pos + 1] # jamo
                    /\ CheckWordConditions(WithoutJamo(Conditions, jamo), cand))
                   => CheckWordConditions(Conditions, cand)
                /\ JamoCount(cand, jamo) = 2 => ~CheckWordConditions(Conditions, cand)

\* C7 witness: after the single turn 각 scored Y,B,B some sequence holds g
\* once, away from the Yellow and the Black position, meets the conditions
\* of the other jamos and matches, and some sequence holds g twice.
C7_Witness ==
    /\ YellowAndBlackOnce("g")
    /\ turns[1].pattern = <<"Y", "B", "B">>
    /\ \E cand \in CandidateSequences(word_length) :
        /\ JamoCount(cand, "g") = 1
        /\ \A pos \in ScoredAt(turns[1], "g", "Y") : cand[pos + 1] # "g"
        /\ \A pos \in ScoredAt(turns[1], "g", "B") : cand[pos + 1] # "g"
        /\ CheckWordConditions(WithoutJamo(Conditions, "g"), cand)
        /\ CheckWordConditions(Conditions, cand)
    /\ \E cand \in CandidateSequences(word_length) : JamoCount(cand, "g") = 2

\* C8 (as claimed): after any sequence of accepted add_turn and reset_game
\* calls no jamo is both pure black and a key of exact_count, and none is
\* both pure black and required by a Yellow.
C8_ConstraintSetConsistent ==
    AllTurnsAccepted
    => /\ pure_black_jamos \cap DOMAIN jamo_exact_counts = {}
       /\ pure_black_jamos \cap yellow_jamos = {}

\* C9: reset_game leaves the turn history empty, word_length unset and the
\* six condition maps empty, get_current_candidates then returns the empty
\* list, and on such a session add_turn with any guess and a pattern of its
\* length is not rejected for its length and sets word_length to the jamo
\* count of that guess, whatever word_length was before the reset.
C9_ResetReturnsToEmpty ==
    [][/\ ret'.op = "reset_game"
          => /\ turns' = <<>>
             /\ word_length' = None
             /\ green_positions' = EmptyDict
             /\ yellow_jamos' = {}
             /\ yellow_excluded_positions' = EmptyDict
             /\ black_positions' = EmptyDict
             /\ pure_black_jamos' = {}
             /\ jamo_exact_counts' = EmptyDict
             /\ CurrentCandidates(db', db_fallback', word_length',
                                  EmptyConditions) = <<>>
       /\ \A guess_word \in GuessWords, result_pattern \in ResultPatterns :
            (/\ ret.op = "reset_game"
             /\ Len(decompose_hangul(guess_word)) = Len(result_pattern)
             /\ add_turn(guess_word, result_pattern))
            => /\ ret'.kind \in {"candidates", "KeyError"}
               /\ word_length' = Len(decompose_hangul(guess_word))]_vars

\* C9 witness: reset_game has just been called.
C9_Witness ==
    /\ ret.op = "reset_game"
    /\ turns = <<>>
    /\ word_length = None
    /\ Conditions = EmptyConditions

\* C10 (as claimed): whenever the turn history is empty,
\* get_current_candidates returns the empty list.
C10_NoTurnsNoCandidates ==
    turns = <<>>
    => CurrentCandidates(db, db_fallback, word_length, Conditions) = <<>>

\* The candidates of the session as it stands.
SessionCandidates == FindCandidates(db, db_fallback, word_length, Conditions)

\* Session states of the state machine, read off the turn history and the
\* candidates: Solved when exactly one candidate is left, Exhausted when
\* none is.
Solved == turns # <<>> /\ AllTurnsAccepted /\ Len(SessionCandidates) = 1

Exhausted == turns # <<>> /\ AllTurnsAccepted /\ Len(SessionCandidates) = 0

\* C11 (as claimed): an add_turn that leaves 0 candidates returns normally
\* with the turn recorded, and Solved and Exhausted are terminal for
\* add_turn: from them no add_turn records a turn or changes word_length or
\* the condition maps, the only way out being reset_game.
C11_SolvedExhaustedTerminal ==
    [][/\ (TurnAccepted /\ ret'.value = <<>>) => Len(turns') = Len(turns) + 1
       /\ ((Solved \/ Exhausted) /\ ret'.op = "add_turn") => UNCHANGED session]_vars

(***************************************************************************)
(* Sessions over six-jamo words, with direct calls of                      *)
(* _check_word_conditions                                                  *)
(***************************************************************************)
Gug == Syllable(0, 13, 1)
Gun == Syllable(0, 13, 4)
Dan == Syllable(3, 0, 4)
Man == Syllable(6, 0, 4)
Yag == Syllable(11, 2, 1)

\* The guesses: 국군 (g,u,g,g,u,n), 군국 (g,u,n,g,u,g), 간단 (g,a,n,d,a,n)
\* and the three-jamo 각.
SixJamoGuesses == {<<Gug, Gun>>, <<Gun, Gug>>, <<Gan, Dan>>, <<Gag>>}

SixJamoPatterns ==
    {<<"Y", "B", "B", "B", "B", "Y">>, <<"G", "G", "G", "G", "G", "G">>,
     <<"G", "B", "B", "B", "B", "Y">>, <<"B", "B", "Y", "B", "B", "G">>,
     <<"Y", "B", "Y", "G", "B", "B">>, <<"G", "G", "B">>}

\* 국군, 군국, 만약 (m,a,n,ng,ya,g), 간단 and 각.
SixJamoTables ==
    {{create_word_data(<<Gug, Gun>>, 5), create_word_data(<<Gun, Gug>>, 4),
      create_word_data(<<Man, Yag>>, 3), create_word_data(<<Gan, Dan>>, 2),
      create_word_data(<<Gag>>, 1)}}

\* The jamo lists _check_word_conditions is called with.
CheckedJamoLists ==
    {<<"n", "a", "n", "a", "g", "a">>, <<"g", "u", "g", "g", "u", "n">>,
     <<"m", "a", "n", "ng", "ya", "g">>, <<"g", "a", "g">>}

\* The outcome of a call together with the argument it was called with.
ReturnedFrom(op, args, kind, value) ==
    [op |-> op, args |-> args, kind |-> kind, value |-> value]

InitSixJamo ==
    /\ db \in SixJamoTables
    /\ db_fallback = NoFallback
    /\ turns = <<>>
    /\ word_length = None
    /\ green_positions = EmptyDict
    /\ yellow_jamos = {}
    /\ yellow_excluded_positions = EmptyDict
    /\ black_positions = EmptyDict
    /\ pure_black_jamos = {}
    /\ jamo_exact_counts = EmptyDict
    /\ ret = Returned("__init__", "none", <<>>)
    /\ other_session = NoOtherSession

\* _check_word_conditions that ticks off the Yellow jamos it has seen.
check_word_conditions_ticking_off(jamos_list) ==
    /\ ret' = ReturnedFrom("_check_word_conditions", jamos_list, "bool",
                           CheckWordConditions(Conditions, jamos_list))
    /\ yellow_jamos' = {jamo \in yellow_jamos : ~InList(jamo, jamos_list)}
    /\ UNCHANGED <<other_session, db, db_fallback, turns, word_length, green_positions,
                   yellow_excluded_positions, black_positions,
                   pure_black_jamos, jamo_exact_counts>>

\* A call of _check_word_conditions on the engine.
check_word_conditions(jamos_list) ==
    /\ ret' = ReturnedFrom("_check_word_conditions", jamos_list, "bool",
                           CheckWordConditions(Conditions, jamos_list))
    /\ UNCHANGED <<other_session, db, db_fallback, turns, word_length, green_positions,
                   yellow_jamos, yellow_excluded_positions, black_positions,
                   pure_black_jamos, jamo_exact_counts>>

NextSixJamo ==
    \/ reset_game
    \/ get_current_candidates
    \/ \E jamos_list \in CheckedJamoLists : check_word_conditions(jamos_list)
    \/ \E guess_word \in SixJamoGuesses, result_pattern \in SixJamoPatterns :
            add_turn(guess_word, result_pattern)

SpecSixJamo == InitSixJamo /\ [][NextSixJamo]_vars

\* C12: a call of _check_word_conditions leaves the databases, the turn
\* history, word_length and the six condition maps as they were, returns
\* what the conditions say of the jamo list, and the same call made again
\* right after it returns the same boolean.
C12_CheckIsPure ==
    [][ret'.op = "_check_word_conditions"
        => /\ UNCHANGED <<db, db_fallback>>
           /\ UNCHANGED session
           /\ ret'.value = CheckWordConditions(Conditions, ret'.args)
           /\ ret'.value = CheckWordConditions(Conditions', ret'.args)
           /\ (ret.op = "_check_word_conditions" /\ ret.args = ret'.args)
              => ret'.value = ret.value]_vars

\* C12 witness: on a session with an accepted turn, _check_word_conditions
\* has just accepted a jamo list that a Yellow of the turn requires.
C12_Witness ==
    /\ turns # <<>>
    /\ AllTurnsAccepted
    /\ ret.op = "_check_word_conditions"
    /\ ret.value = TRUE
    /\ \E jamo \in yellow_jamos : InList(jamo, ret.args)

\* The rows of a table whose length is word_length and whose jamos satisfy
\* the conditions of the session.
MatchingRows(table) ==
    {r \in table : r.length = word_length /\ CheckWordConditions(Conditions, r.jamos)}

\* The corpus a candidate query ends up reading its result from: the
\* fallback when there is one and the primary has no matching word.
QueriedCorpus ==
    IF MatchingRows(db) # {} \/ ~db_fallback.present THEN db ELSE db_fallback.table

\* C13: whenever at least one turn has been accepted, the list returned by
\* get_current_candidates or add_turn holds exactly the words of the
\* queried corpus whose length is word_length and whose jamos match, each
\* once, by frequency descending and, among equal frequencies, by word
\* ascending.
C13_CandidatesAreTheMatchingWordsInOrder ==
    (turns # <<>> /\ AllTurnsAccepted /\ ret.kind = "candidates")
    => /\ Len(ret.value) = Cardinality(MatchingRows(QueriedCorpus))
       /\ {ret.value[i] : i \in 1..Len(ret.value)}
            = {r.word : r \in MatchingRows(QueriedCorpus)}
       /\ \A i, j \in 1..Len(ret.value) :
            i < j
            => \E ri, rj \in MatchingRows(QueriedCorpus) :
                /\ ri.word = ret.value[i]
                /\ rj.word = ret.value[j]
                /\ \/ ri.frequency > rj.frequency
                   \/ ri.frequency = rj.frequency /\ WordLess(ri.word, rj.word)

\* C13 witness: a returned list of two or more words, two of them of the
\* same frequency, while a word of the same length of the queried corpus
\* has been filtered out.
C13_Witness ==
    /\ turns # <<>>
    /\ AllTurnsAccepted
    /\ ret.kind = "candidates"
    /\ Len(ret.value) >= 2
    /\ \E ri, rj \in MatchingRows(QueriedCorpus) :
            ri # rj /\ ri.frequency = rj.frequency
    /\ \E r \in QueriedCorpus : r.length = word_length /\ r \notin MatchingRows(QueriedCorpus)

\* The turn an accepted add_turn step has just recorded.
RecordedTurn == turns'[Len(turns')]

\* The jamos candidate sequences of six jamos are drawn from.
MixedTurnJamos == {"g", "u", "n", "a"}

\* C19: after an accepted turn in which a jamo has g Green, y Yellow and b
\* Black occurrences with g + y > 0 and b > 0, exact_count[jamo] = g + y
\* and the turn has not added the jamo to pure black; and 국군 scored
\* Y,B,B,B,B,Y in a fresh session leaves exact_count[g] = 1, so that no
\* sequence holding g twice or more matches while every sequence holding g
\* exactly once, not at positions 0, 2 or 3, that meets the conditions of
\* the other jamos does.
C19_MixedTurnFixesExactCount ==
    [][/\ TurnAccepted
          => \A i \in 1..Len(RecordedTurn.jamos) :
                LET jamo == RecordedTurn.jamos[i]
                    g == JamoResult(RecordedTurn.jamos, RecordedTurn.pattern, jamo, "G")
                    y == JamoResult(RecordedTurn.jamos, RecordedTurn.pattern, jamo, "Y")
                    b == JamoResult(RecordedTurn.jamos, RecordedTurn.pattern, jamo, "B")
                IN  (g + y > 0 /\ b > 0)
                    => /\ jamo \in DOMAIN jamo_exact_counts'
                       /\ jamo_exact_counts'[jamo] = g + y
                       /\ jamo \in pure_black_jamos' => jamo \in pure_black_jamos
       /\ (/\ TurnAccepted
           /\ turns = <<>>
           /\ RecordedTurn.word = <<Gug, Gun>>
           /\ RecordedTurn.pattern = <<"Y", "B", "B", "B", "B", "Y">>)
          => /\ "g" \in DOMAIN jamo_exact_counts'
             /\ jamo_exact_counts'["g"] = 1
             /\ \A cand \in [1..Len(RecordedTurn.jamos) -> MixedTurnJamos] :
                  /\ JamoCount(cand, "g") >= 2 => ~CheckWordConditions(Conditions', cand)
                  /\ (/\ JamoCount(cand, "g") = 1
                      /\ \A pos \in {0, 2, 3} : cand[pos + 1] # "g"
                      /\ CheckWordConditions(WithoutJamo(Conditions', "g"), cand))
                     => CheckWordConditions(Conditions', cand)]_vars

\* C19 witness: a fresh session has taken 국군 scored Y,B,B,B,B,Y, after
\* which some sequence holding g exactly once matches.
C19_Witness ==
    /\ Len(turns) = 1
    /\ turns[1].word = <<Gug, Gun>>
    /\ turns[1].pattern = <<"Y", "B", "B", "B", "B", "Y">>
    /\ ret.op = "add_turn"
    /\ ret.kind = "candidates"
    /\ jamo_exact_counts = [jamo \in {"g"} |-> 1]
    /\ "g" \notin pure_black_jamos
    /\ \E cand \in [1..word_length -> MixedTurnJamos] :
            JamoCount(cand, "g") = 1 /\ CheckWordConditions(Conditions, cand)

\* C18 (as claimed): across accepted add_turn calls no entry of the
\* conditions is removed or changed: a Green position keeps its jamo, an
\* exact count keeps its value, and the pure-black set, the Yellow set, the
\* Black set of every position and the Yellow-excluded positions of every
\* jamo only gain members.
C18_ConstraintsOnlyTighten ==
    [][(TurnAccepted /\ AllTurnsAccepted)
        => /\ \A pos \in DOMAIN green_positions :
                /\ pos \in DOMAIN green_positions'
                /\ green_positions'[pos] = green_positions[pos]
           /\ \A jamo \in DOMAIN jamo_exact_counts :
                /\ jamo \in DOMAIN jamo_exact_counts'
                /\ jamo_exact_counts'[jamo] = jamo_exact_counts[jamo]
           /\ pure_black_jamos \subseteq pure_black_jamos'
           /\ yellow_jamos \subseteq yellow_jamos'
           /\ \A pos \in DOMAIN black_positions :
                /\ pos \in DOMAIN black_positions'
                /\ black_positions[pos] \subseteq black_positions'[pos]
           /\ \A jamo \in DOMAIN yellow_excluded_positions :
                /\ jamo \in DOMAIN yellow_excluded_positions'
                /\ \A k \in 1..Len(yellow_excluded_positions[jamo]) :
                     \E n \in 1..Len(yellow_excluded_positions'[jamo]) :
                        yellow_excluded_positions'[jamo][n]
                            = yellow_excluded_positions[jamo][k]]_vars

\* C20 (as claimed): after an accepted turn in which a jamo is scored Green
\* or Yellow and never Black, exact_count has no entry for the jamo if it
\* had none before, and keeps the value it had otherwise.
C20_LowerBoundKeepsExactCount ==
    [][(TurnAccepted /\ AllTurnsAccepted)
        => \A i \in 1..Len(RecordedTurn.jamos) :
            LET jamo == RecordedTurn.jamos[i]
                g == JamoResult(RecordedTurn.jamos, RecordedTurn.pattern, jamo, "G")
                y == JamoResult(RecordedTurn.jamos, RecordedTurn.pattern, jamo, "Y")
                b == JamoResult(RecordedTurn.jamos, RecordedTurn.pattern, jamo, "B")
            IN  (g + y > 0 /\ b = 0)
                => IF jamo \in DOMAIN jamo_exact_counts
                   THEN /\ jamo \in DOMAIN jamo_exact_counts'
                        /\ jamo_exact_counts'[jamo] = jamo_exact_counts[jamo]
                   ELSE jamo \notin DOMAIN jamo_exact_counts']_vars

(***************************************************************************)
(* WordProcessor.decompose_hangul called on its own                        *)
(***************************************************************************)
GGagg == Syllable(1, 0, 2)
Neun == Syllable(2, 18, 4)
Anj == Syllable(11, 0, 5)
Da == Syllable(3, 0, 0)

\* The syllables the longer words are made of: 가, 간, 돌, 다, 깎, 앉, 는, 힣.
SampleSyllables == {Ga, Gan, Dol, Da, GGagg, Anj, Neun, LastSyllable}

\* The words decompose_hangul is called with: every syllable block on its
\* own, every pair of sample syllables, 가나다, the empty word and words
\* with a character before 가 or after 힣.
DecomposedWords ==
    {<<char>> : char \in 0..LastSyllable}
    \cup {<<c1, c2>> : c1 \in SampleSyllables, c2 \in SampleSyllables}
    \cup {<<Ga, Na, Da>>, <<>>, <<Ga, LastSyllable + 1>>, <<0 - 1, Gan>>}

\* A call of decompose_hangul has been made and has not returned yet.
InitDecompose ==
    /\ db = {}
    /\ db_fallback = NoFallback
    /\ turns = <<>>
    /\ word_length = None
    /\ green_positions = EmptyDict
    /\ yellow_jamos = {}
    /\ yellow_excluded_positions = EmptyDict
    /\ black_positions = EmptyDict
    /\ pure_black_jamos = {}
    /\ jamo_exact_counts = EmptyDict
    /\ \E word \in DecomposedWords :
            ret = ReturnedFrom("decompose_hangul", word, "called", <<>>)
    /\ other_session = NoOtherSession

\* The call returns the list of jamos.
decompose_hangul_returns ==
    /\ ret.op = "decompose_hangul"
    /\ ret.kind = "called"
    /\ ret' = ReturnedFrom("decompose_hangul", ret.args, "jamos",
                           decompose_hangul(ret.args))
    /\ UNCHANGED <<other_session, db, db_fallback, turns, word_length, green_positions,
                   yellow_jamos, yellow_excluded_positions, black_positions,
                   pure_black_jamos, jamo_exact_counts>>

NextDecompose == decompose_hangul_returns

SpecDecompose == InitDecompose /\ [][NextDecompose]_vars

InitialOf(char) == CHOSUNG[(char \div (21 * 28)) + 1]
VowelOf(char) == JUNGSUNG[((char % (21 * 28)) \div 28) + 1]
FinalOf(char) == JONGSUNG[(char % 28) + 1]

\* A syllable block of a base consonant, a base vowel and no final or a
\* base consonant as final.
SimpleSyllable(char) ==
    /\ 0 <= char /\ char <= LastSyllable
    /\ InitialOf(char) \in BASIC_CONSONANTS
    /\ VowelOf(char) \in BASIC_VOWELS
    /\ FinalOf(char) \in BASIC_CONSONANTS \cup {""}

\* The initial, vowel and final (when there is one) of each syllable of a
\* word, in order.
RECURSIVE SimpleJamos(_)
SimpleJamos(word) ==
    IF word = <<>>
    THEN <<>>
    ELSE <<InitialOf(Head(word)), VowelOf(Head(word))>>
         \o (IF FinalOf(Head(word)) = "" THEN <<>> ELSE <<FinalOf(Head(word))>>)
         \o SimpleJamos(Tail(word))

\* C15: for a word of syllable blocks decompose_hangul returns base
\* consonants and base vowels only, at least two per syllable, and for a
\* word of simple syllables exactly the initial, vowel and final of each
\* syllable in order.
C15_DecomposeTotalAndIdentityOnSimple ==
    (/\ ret.op = "decompose_hangul"
     /\ ret.kind = "jamos"
     /\ \A i \in 1..Len(ret.args) : 0 <= ret.args[i] /\ ret.args[i] <= LastSyllable)
    => /\ Len(ret.value) >= 2 * Len(ret.args)
       /\ \A k \in 1..Len(ret.value) :
            ret.value[k] \in BASIC_CONSONANTS \cup BASIC_VOWELS
       /\ (\A i \in 1..Len(ret.args) : SimpleSyllable(ret.args[i]))
          => ret.value = SimpleJamos(ret.args)

\* C15 witness: decompose_hangul has returned for the two-syllable word 간돌
\* of simple syllables.
C15_Witness ==
    /\ ret.op = "decompose_hangul"
    /\ ret.kind = "jamos"
    /\ ret.args = <<Gan, Dol>>
    /\ \A i \in 1..Len(ret.args) : SimpleSyllable(ret.args[i])
    /\ Len(ret.value) = 6

(***************************************************************************)
(* Building the corpus: WordProcessor validation and parse_text_file,      *)
(* WordDatabase insertion and the command-line builder of word_database.py *)
(***************************************************************************)
\* The character with the given code point, as an offset from 가.
CharOf(codepoint) == codepoint - 44032

\* Characters outside 가..힣 that occur in the inputs: '1', '2', 'a', ','
\* and the line feed.
Digit1 == CharOf(49)
Digit2 == CharOf(50)
LetterA == CharOf(97)
Comma == CharOf(44)
LineFeed == CharOf(10)

\* \d, for the characters above
IsDigit(char) == CharOf(48) <= char /\ char <= CharOf(57)

\* \w, for the characters above: letters (syllable blocks among them),
\* digits and the underscore.
IsWordChar(char) ==
    \/ IsSyllable(char)
    \/ IsDigit(char)
    \/ (CharOf(65) <= char /\ char <= CharOf(90))
    \/ (CharOf(97) <= char /\ char <= CharOf(122))
    \/ char = CharOf(95)

\* re.match(r'^[가-힣]+$', word): one or more syllable blocks up to the end
\* of the string or up to a line feed that ends it.
is_valid_hangul(word) ==
    LET body == IF word # <<>> /\ word[Len(word)] = LineFeed
                THEN SubSeq(word, 1, Len(word) - 1)
                ELSE word
    IN  body # <<>> /\ \A i \in 1..Len(body) : IsSyllable(body[i])

DefaultMinLength == 5
DefaultMaxLength == 7

is_valid_length(word, min_length, max_length) ==
    IF ~is_valid_hangul(word)
    THEN FALSE
    ELSE min_length <= Len(decompose_hangul(word))
         /\ Len(decompose_hangul(word)) <= max_length

is_valid_word(word, min_length, max_length) ==
    is_valid_hangul(word) /\ is_valid_length(word, min_length, max_length)

\* re.sub(r'\d+$', '', raw_word)
RECURSIVE StripTrailingDigits(_)
StripTrailingDigits(raw_word) ==
    IF raw_word # <<>> /\ IsDigit(raw_word[Len(raw_word)])
    THEN StripTrailingDigits(SubSeq(raw_word, 1, Len(raw_word) - 1))
    ELSE raw_word

\* clean_word: trailing digits are removed, then every character that is
\* neither a word character nor a syllable block.
clean_word(raw_word) ==
    LET Kept(char) == IsWordChar(char) \/ IsSyllable(char)
    IN  SelectSeq(StripTrailingDigits(raw_word), Kept)

\* The loop of parse_text_file from line line_num on; a line is the raw
\* word it holds, without surrounding white space.
RECURSIVE ParseLines(_, _)
ParseLines(lines, line_num) ==
    IF line_num > Len(lines)
    THEN <<>>
    ELSE LET raw_word == lines[line_num]
             word == clean_word(raw_word)
         IN  (IF raw_word # <<>> /\ word # <<>>
                 /\ is_valid_word(word, DefaultMinLength, DefaultMaxLength)
              THEN <<[word |-> word,
                      length |-> Len(decompose_hangul(word)),
                      jamos |-> decompose_hangul(word),
                      source_line |-> line_num,
                      raw_word |-> raw_word]>>
              ELSE <<>>) \o ParseLines(lines, line_num + 1)

\* int(freq_str) raises ValueError unless the string is a number; for the
\* characters above, a non-empty string of digits.
IsInt(freq_str) ==
    freq_str # <<>> /\ \A i \in 1..Len(freq_str) : IsDigit(freq_str[i])

RECURSIVE IntOf(_)
IntOf(freq_str) ==
    IF freq_str = <<>>
    THEN 0
    ELSE IntOf(SubSeq(freq_str, 1, Len(freq_str) - 1)) * 10
         + (freq_str[Len(freq_str)] - CharOf(48))

\* The loop of the command-line builder over the lines of the input file;
\* a line is the list of its white-space separated parts.
RECURSIVE MainWordsData(_)
MainWordsData(lines) ==
    IF lines = <<>>
    THEN <<>>
    ELSE LET parts == Head(lines)
         IN  (IF Len(parts) = 2 /\ IsInt(parts[2]) /\ is_valid_hangul(parts[1])
              THEN <<create_word_data(parts[1], IntOf(parts[2]))>>
              ELSE <<>>) \o MainWordsData(Tail(lines))

\* The tuple bulk_insert binds to the INSERT raises KeyError when a key is
\* missing; frequency defaults to 0.
HasRowKeys(word_data) == {"word", "length", "jamos"} \subseteq DOMAIN word_data

RowOf(word_data) ==
    [word |-> word_data.word, length |-> word_data.length,
     jamos |-> word_data.jamos,
     frequency |-> IF "frequency" \in DOMAIN word_data
                   THEN word_data.frequency
                   ELSE 0]

NoneInserted == [inserted |-> 0, duplicated |-> 0, errors |-> 0]

\* INSERT OR REPLACE in place of INSERT OR IGNORE: the row of a word already
\* stored is replaced and counted as inserted.
InsertOrReplace(table, counts, word_data) ==
    IF ~HasRowKeys(word_data)
    THEN [table |-> table, counts |-> [counts EXCEPT !.errors = @ + 1]]
    ELSE [table |-> {r \in table : r.word # word_data.word} \cup {RowOf(word_data)},
          counts |-> [counts EXCEPT !.inserted = @ + 1]]

\* One iteration of the loop of bulk_insert: INSERT OR IGNORE over the
\* UNIQUE word column, and the counter that goes up.
InsertOrIgnore(table, counts, word_data) ==
    IF ~HasRowKeys(word_data)
    THEN [table |-> table, counts |-> [counts EXCEPT !.errors = @ + 1]]
    ELSE IF \E r \in table : r.word = word_data.word
    THEN [table |-> table, counts |-> [counts EXCEPT !.duplicated = @ + 1]]
    ELSE [table |-> table \cup {RowOf(word_data)},
          counts |-> [counts EXCEPT !.inserted = @ + 1]]

RECURSIVE BulkInsertLoop(_, _, _)
BulkInsertLoop(table, counts, words_data) ==
    IF words_data = <<>>
    THEN [table |-> table, counts |-> counts]
    ELSE LET step == InsertOrIgnore(table, counts, Head(words_data))
         IN  BulkInsertLoop(step.table, step.counts, Tail(words_data))

\* The dict bulk_insert returns.
Stats(counts, words_data) ==
    [inserted |-> counts.inserted, duplicated |-> counts.duplicated,
     errors |-> counts.errors, total_processed |-> Len(words_data)]

\* Bound of the model: the longest list passed to bulk_insert,
\* parse_text_file and the command-line builder.
MaxBatch == 2

\* Every list of at most MaxBatch elements of a set.
ListsOf(elements) == UNION {[1..n -> elements] : n \in 0..MaxBatch}

\* The records insert_word and bulk_insert are called with: 간 with two
\* frequencies, 가나다 as parse_text_file returns it (no frequency) and a
\* record without its word.
WordDataRecords ==
    {create_word_data(<<Gan>>, 1), create_word_data(<<Gan>>, 2),
     [word |-> <<Ga, Na, Da>>, length |-> 6,
      jamos |-> <<"g", "a", "n", "a", "d", "a">>,
      source_line |-> 1, raw_word |-> <<Ga, Na, Da>>],
     [length |-> 3, jamos |-> <<"g", "a", "g">>, frequency |-> 1]}

\* The lines of the builder's input file: "가 1", "가나다 2", "국군 a",
\* "가a 1" and "가나다".
BuilderLines ==
    {<<<<Ga>>, <<Digit1>>>>, <<<<Ga, Na, Da>>, <<Digit2>>>>,
     <<<<Gug, Gun>>, <<LetterA>>>>, <<<<Ga, LetterA>>, <<Digit1>>>>,
     <<<<Ga, Na, Da>>>>}

\* The lines of the file parse_text_file reads: "가", "가나다", "국군1",
\* "가,나다" and "가나다a".
TextLines ==
    {<<Ga>>, <<Ga, Na, Da>>, <<Gug, Gun, Digit1>>, <<Ga, Comma, Na, Da>>,
     <<Ga, Na, Da, LetterA>>}

\* The tables a WordDatabase is opened on.
StoredTables == {{}, {create_word_data(<<Gan>>, 1)}}

InitCorpus ==
    /\ db \in StoredTables
    /\ db_fallback = NoFallback
    /\ turns = <<>>
    /\ word_length = None
    /\ green_positions = EmptyDict
    /\ yellow_jamos = {}
    /\ yellow_excluded_positions = EmptyDict
    /\ black_positions = EmptyDict
    /\ pure_black_jamos = {}
    /\ jamo_exact_counts = EmptyDict
    /\ ret = Returned("__init__", "none", <<>>)
    /\ other_session = NoOtherSession

bulk_insert(words_data) ==
    LET done == BulkInsertLoop(db, NoneInserted, words_data)
    IN  /\ db' = done.table
        /\ ret' = ReturnedFrom("bulk_insert", <<words_data>>, "stats",
                               Stats(done.counts, words_data))
        /\ UNCHANGED <<other_session, db_fallback, turns, word_length, green_positions,
                       yellow_jamos, yellow_excluded_positions, black_positions,
                       pure_black_jamos, jamo_exact_counts>>

\* insert_word returns whether a row was inserted; an exception is caught
\* and gives False.
insert_word(word_data) ==
    LET done == InsertOrIgnore(db, NoneInserted, word_data)
    IN  /\ db' = done.table
        /\ ret' = ReturnedFrom("insert_word", <<word_data>>, "bool",
                               done.counts.inserted > 0)
        /\ UNCHANGED <<other_session, db_fallback, turns, word_length, green_positions,
                       yellow_jamos, yellow_excluded_positions, black_positions,
                       pure_black_jamos, jamo_exact_counts>>

clear_all_words ==
    /\ db' = {}
    /\ ret' = Returned("clear_all_words", "bool", TRUE)
    /\ UNCHANGED <<other_session, db_fallback, turns, word_length, green_positions,
                   yellow_jamos, yellow_excluded_positions, black_positions,
                   pure_black_jamos, jamo_exact_counts>>

parse_text_file(lines) ==
    /\ ret' = Returned("parse_text_file", "words_data", ParseLines(lines, 1))
    /\ UNCHANGED <<other_session, db, db_fallback, turns, word_length, green_positions,
                   yellow_jamos, yellow_excluded_positions, black_positions,
                   pure_black_jamos, jamo_exact_counts>>

\* The command-line builder: the lines are read, the table is cleared and
\* the records are inserted.
main(lines) ==
    LET words_data == MainWordsData(lines)
        done == BulkInsertLoop({}, NoneInserted, words_data)
    IN  /\ db' = done.table
        /\ ret' = Returned("__main__", "words_data", words_data)
        /\ UNCHANGED <<other_session, db_fallback, turns, word_length, green_positions,
                       yellow_jamos, yellow_excluded_positions, black_positions,
                       pure_black_jamos, jamo_exact_counts>>

NextCorpus ==
    \/ clear_all_words
    \/ \E word_data \in WordDataRecords : insert_word(word_data)
    \/ \E words_data \in ListsOf(WordDataRecords) : bulk_insert(words_data)
    \/ \E lines \in ListsOf(TextLines) : parse_text_file(lines)
    \/ \E lines \in ListsOf(BuilderLines) : main(lines)

SpecCorpus == InitCorpus /\ [][NextCorpus]_vars

\* The positions of a list passed to bulk_insert whose record is dropped as
\* a duplicate: its word is already stored, or is the word of an earlier
\* record of the list.
DroppedOccurrences(table, words_data) ==
    {k \in 1..Len(words_data) :
        /\ HasRowKeys(words_data[k])
        /\ \/ \E r \in table : r.word = words_data[k].word
           \/ \E j \in 1..(k - 1) :
                HasRowKeys(words_data[j]) /\ words_data[j].word = words_data[k].word}

\* C16: after bulk_insert the table holds at most one row per word; the
\* rows already stored are kept as they were; a new row carries the length,
\* jamos and frequency of the first record of the list with its word; every
\* record with a word has its word stored; and the returned counters add up
\* to total_processed, the length of the list, with duplicated the number
\* of dropped occurrences.
C16_FirstInsertionWins ==
    [][ret'.op = "bulk_insert"
        => LET words_data == ret'.args[1]
               stats == ret'.value
           IN  /\ \A r1, r2 \in db' : r1.word = r2.word => r1 = r2
               /\ db \subseteq db'
               /\ \A r \in db' \ db :
                    \E k \in 1..Len(words_data) :
                        /\ HasRowKeys(words_data[k])
                        /\ words_data[k].word = r.word
                        /\ words_data[k].length = r.length
                        /\ words_data[k].jamos = r.jamos
                        /\ r.frequency = IF "frequency" \in DOMAIN words_data[k]
                                         THEN words_data[k].frequency
                                         ELSE 0
                        /\ k \notin DroppedOccurrences(db, words_data)
               /\ \A k \in 1..Len(words_data) :
                    HasRowKeys(words_data[k])
                    => \E r \in db' : r.word = words_data[k].word
               /\ stats.total_processed = Len(words_data)
               /\ stats.inserted + stats.duplicated + stats.errors
                    = stats.total_processed
               /\ stats.duplicated = Cardinality(DroppedOccurrences(db, words_data))
               /\ stats.inserted = Cardinality(db' \ db)]_vars

\* C16 witness: bulk_insert has been called with 간 twice, first with
\* frequency 2 and then with frequency 1, on a table without 간, and the
\* table holds 간 with frequency 2.
C16_Witness ==
    /\ ret.op = "bulk_insert"
    /\ ret.args[1] = <<create_word_data(<<Gan>>, 2), create_word_data(<<Gan>>, 1)>>
    /\ ret.value.inserted = 1
    /\ ret.value.duplicated = 1
    /\ create_word_data(<<Gan>>, 2) \in db

\* A record of syllable blocks only whose jamo count lies between the
\* default minimum and maximum length.
InLengthRange(word_data) ==
    /\ word_data.word # <<>>
    /\ \A i \in 1..Len(word_data.word) :
            0 <= word_data.word[i] /\ word_data.word[i] <= LastSyllable
    /\ word_data.length = Len(word_data.jamos)
    /\ DefaultMinLength <= word_data.length
    /\ word_data.length <= DefaultMaxLength

\* C17 (as claimed): every record the command-line builder inserts into the
\* table, and every record parse_text_file returns, consists of syllable
\* blocks only and has between 5 and 7 jamos.
C17_CorpusLengthRange ==
    [][/\ ret'.op = "__main__" => \A r \in db' : InLengthRange(r)
       /\ ret'.op = "parse_text_file"
          => \A k \in 1..Len(ret'.value) : InLengthRange(ret'.value[k])]_vars


\* The recorded turns whose pattern consists of G, Y and B only: the turns
\* add_turn accepted since the last reset.
AcceptedTurns ==
    {k \in 1..Len(turns) :
        \A i \in 1..Len(turns[k].pattern) : turns[k].pattern[i] \in FeedbackSymbols}

\* The turn scored the jamo Black at least once and never Green or Yellow.
AllBlackIn(turn, jamo) ==
    /\ ScoredAt(turn, jamo, "B") # {}
    /\ ScoredAt(turn, jamo, "G") = {}
    /\ ScoredAt(turn, jamo, "Y") = {}

\* The turn scored the jamo Black at one position and Green or Yellow at
\* another.
MixedIn(turn, jamo) ==
    /\ ScoredAt(turn, jamo, "B") # {}
    /\ ScoredAt(turn, jamo, "G") \cup ScoredAt(turn, jamo, "Y") # {}

\* C21: in every reachable state a jamo is in pure_black_jamos if and only
\* if some accepted turn since the last reset scored it Black at least once
\* and never Green or Yellow; a jamo that an accepted turn scored Black at
\* one position and Green or Yellow at another is in black_positions at
\* each of its Black positions, and is in pure_black_jamos only when another
\* accepted turn scored it all Black.
C21_PureBlackOnlyFromAllBlackTurn ==
    /\ pure_black_jamos =
            {jamo \in UNION {{turns[k].jamos[i] : i \in 1..Len(turns[k].jamos)} :
                                k \in AcceptedTurns} :
                \E k \in AcceptedTurns : AllBlackIn(turns[k], jamo)}
    /\ \A k \in AcceptedTurns :
          \A i \in 1..Len(turns[k].jamos) :
              LET jamo == turns[k].jamos[i]
              IN  MixedIn(turns[k], jamo) =>
                    /\ \A pos \in ScoredAt(turns[k], jamo, "B") :
                          /\ pos \in DOMAIN black_positions
                          /\ jamo \in black_positions[pos]
                    /\ (jamo \in pure_black_jamos =>
                          \E other \in AcceptedTurns \ {k} : AllBlackIn(turns[other], jamo))

\* C21 witness: an accepted turn scored ㄱ Yellow at one position and Black
\* at another, ㄱ is recorded in black_positions and is not in
\* pure_black_jamos, while a jamo the turn scored all Black is.
C21_Witness ==
    /\ ret.op = "add_turn" /\ ret.kind = "candidates"
    /\ \E k \in AcceptedTurns :
          /\ MixedIn(turns[k], "g")
          /\ \E pos \in DOMAIN black_positions : "g" \in black_positions[pos]
    /\ "g" \notin pure_black_jamos
    /\ pure_black_jamos # {}


\* The elements of a list.
Range(list) == {list[k] : k \in 1..Len(list)}

\* d.get(k, default) on a dict d
DictGet(d, k, default) == IF k \in DOMAIN d THEN d[k] ELSE default

\* The positions (0-based) at which a turn carries the result.
PositionsOf(turn, result) ==
    {i \in 0..(Len(turn.jamos) - 1) : turn.pattern[i + 1] = result}

\* C22: after an accepted turn with jamos A and pattern P, for every
\* position i: if P[i] is G then green_positions[i] = A[i]; if P[i] is Y
\* then A[i] is in yellow_jamos and i is in yellow_excluded_positions[A[i]];
\* if P[i] is B then A[i] is in black_positions[i]; and the turn adds nothing
\* else to green_positions, yellow_jamos, yellow_excluded_positions and
\* black_positions.
C22_PerPositionRecording ==
    [][TurnAccepted =>
        LET A == RecordedTurn.jamos
            P == RecordedTurn.pattern
            greens == PositionsOf(RecordedTurn, "G")
            yellows == PositionsOf(RecordedTurn, "Y")
            blacks == PositionsOf(RecordedTurn, "B")
        IN  /\ \A i \in greens :
                  i \in DOMAIN green_positions' /\ green_positions'[i] = A[i + 1]
            /\ \A i \in yellows :
                  /\ A[i + 1] \in yellow_jamos'
                  /\ A[i + 1] \in DOMAIN yellow_excluded_positions'
                  /\ i \in Range(yellow_excluded_positions'[A[i + 1]])
            /\ \A i \in blacks :
                  i \in DOMAIN black_positions' /\ A[i + 1] \in black_positions'[i]
            \* nothing else
            /\ DOMAIN green_positions' = DOMAIN green_positions \cup greens
            /\ \A i \in DOMAIN green_positions \ greens :
                  green_positions'[i] = green_positions[i]
            /\ yellow_jamos' = yellow_jamos \cup {A[i + 1] : i \in yellows}
            /\ DOMAIN yellow_excluded_positions' =
                  DOMAIN yellow_excluded_positions \cup {A[i + 1] : i \in yellows}
            /\ \A jamo \in DOMAIN yellow_excluded_positions' :
                  Range(yellow_excluded_positions'[jamo]) =
                      Range(DictGet(yellow_excluded_positions, jamo, <<>>))
                        \cup ScoredAt(RecordedTurn, jamo, "Y")
            /\ DOMAIN black_positions' = DOMAIN black_positions \cup blacks
            /\ \A i \in DOMAIN black_positions' :
                  black_positions'[i] =
                      DictGet(black_positions, i, {})
                        \cup (IF i \in blacks THEN {A[i + 1]} ELSE {})
    ]_vars

\* C22 witness: a second accepted turn with a Green, a Yellow and a Black
\* position has been recorded on top of the conditions of the first.
C22_Witness ==
    /\ ret.op = "add_turn" /\ ret.kind = "candidates"
    /\ Len(turns) = 2 /\ AllTurnsAccepted
    /\ PositionsOf(turns[2], "G") # {}
    /\ PositionsOf(turns[2], "Y") # {}
    /\ PositionsOf(turns[2], "B") # {}
    /\ green_positions # EmptyDict
    /\ yellow_jamos # {}
    /\ black_positions # EmptyDict


\* The six checks of the claim on a jamo sequence, as a function from the
\* number of the check to its outcome.
SixChecks(atoms) ==
    [check \in 1..6 |->
        CASE check = 1 ->
                \A p \in DOMAIN green_positions :
                    p < Len(atoms) /\ atoms[p + 1] = green_positions[p]
          [] check = 2 ->
                \A p \in 0..(Len(atoms) - 1) :
                    p \in DOMAIN black_positions => atoms[p + 1] \notin black_positions[p]
          [] check = 3 -> pure_black_jamos \cap Range(atoms) = {}
          [] check = 4 -> yellow_jamos \subseteq Range(atoms)
          [] check = 5 ->
                \A p \in 0..(Len(atoms) - 1) :
                    atoms[p + 1] \in DOMAIN yellow_excluded_positions
                        => p \notin Range(yellow_excluded_positions[atoms[p + 1]])
          [] check = 6 ->
                \A a \in DOMAIN jamo_exact_counts :
                    jamo_exact_counts[a] =
                        Cardinality({p \in 1..Len(atoms) : atoms[p] = a})]

\* The jamo sequences of length word_length among the rows of the primary
\* database.
RowJamos == {row.jamos : row \in {r \in db : r.length = word_length}}

\* The jamo sequences that differ from the given one at no more than one
\* position, over the jamos of the guesses.
OneJamoReplaced(atoms) ==
    {[atoms EXCEPT ![p] = jamo] : p \in 1..Len(atoms), jamo \in MixedTurnJamos}

\* C23: for the conditions of every reachable session and every jamo
\* sequence of length word_length, _check_word_conditions returns true if
\* and only if all six checks hold: green positions, black positions, pure
\* black jamos, required Yellow jamos, Yellow excluded positions, exact
\* counts. The outcome is that of the set of the six checks, whatever the
\* order they are evaluated in.
C23_MatchesIsConjunctionOfSixChecks ==
    [][ret'.op = "_check_word_conditions" =>
        /\ Len(ret'.args) = word_length =>
              ret'.value = (\A check \in 1..6 : SixChecks(ret'.args)[check])
        /\ \A atoms \in RowJamos \cup OneJamoReplaced(ret'.args) :
              Len(atoms) = word_length =>
                  CheckWordConditions(Conditions, atoms)
                      = (\A check \in 1..6 : SixChecks(atoms)[check])]_vars

\* C23 witness: on a session whose conditions hold an exact count, a Yellow
\* and a pure black jamo, _check_word_conditions has returned true for one
\* sequence of length word_length, and another row of that length fails
\* only some of the six checks.
C23_Witness ==
    /\ ret.op = "_check_word_conditions" /\ ret.kind = "bool"
    /\ Len(ret.args) = word_length
    /\ ret.value = TRUE
    /\ jamo_exact_counts # EmptyDict /\ yellow_jamos # {} /\ pure_black_jamos # {}
    /\ \E atoms \in RowJamos :
          /\ \E check \in 1..6 : ~SixChecks(atoms)[check]
          /\ \E check \in 1..6 : SixChecks(atoms)[check]


\* The words of the rows of a table that have length word_length and
\* satisfy the conditions of the session.
MatchingWordsOf(table) == {r.word : r \in MatchingRows(table)}

\* C24: the fallback corpus is consulted only when the primary corpus has
\* no matching word and a fallback is configured: when the primary has a
\* match the returned list holds only the matching words of the primary;
\* when it has none and a fallback is configured the list holds exactly the
\* matching words of length word_length of the fallback; when it has none
\* and no fallback is configured the list is empty. The query changes
\* neither corpus, get_current_candidates leaves the session as it was, and
\* the session after an add_turn is the one the turn alone determines.
C24_FallbackOnlyWhenPrimaryEmpty ==
    [][ret'.kind = "candidates" =>
        /\ (MatchingRows(db) # {})' =>
              Range(ret'.value) = MatchingWordsOf(db)'
        /\ (MatchingRows(db) = {} /\ db_fallback.present)' =>
              Range(ret'.value) = MatchingWordsOf(db_fallback.table)'
        /\ (MatchingRows(db) = {} /\ ~db_fallback.present)' =>
              ret'.value = <<>>
        /\ UNCHANGED <<db, db_fallback>>
        /\ ret'.op = "get_current_candidates" => UNCHANGED session
        /\ ret'.op = "add_turn" =>
              /\ turns' = Append(turns, RecordedTurn)
              /\ word_length' = Len(RecordedTurn.jamos)
              /\ Conditions' = UpdateConditions(Conditions, RecordedTurn.jamos,
                                                RecordedTurn.pattern)
    ]_vars

\* C24 witness: the primary corpus has words of length word_length but none
\* that matches, a fallback is configured, and the returned list holds the
\* matching words of the fallback, one of which is not in the primary.
C24_Witness ==
    /\ ret.kind = "candidates"
    /\ turns # <<>> /\ AllTurnsAccepted
    /\ \E r \in db : r.length = word_length
    /\ MatchingRows(db) = {}
    /\ db_fallback.present
    /\ ret.value # <<>>
    /\ \E i \in 1..Len(ret.value) : ret.value[i] \notin {r.word : r \in db}


\* The two compound vowels ㅙ and ㅞ.
ThreeVowelCompounds == {"wae", "we"}

\* The jamos are those of one syllable block: an initial part of a atoms, a
\* vowel part of b atoms and a final part of f atoms, in that order.
InitialVowelFinal(jamos, char, a, b, f) ==
    /\ Len(jamos) = a + b + f
    /\ \A k \in 1..a : jamos[k] \in BASIC_CONSONANTS /\ jamos[k] = jamos[1]
    /\ (a = 2) = (InitialOf(char) \in DOUBLE_CONSONANTS)
    /\ \A k \in (a + 1)..(a + b) : jamos[k] \in BASIC_VOWELS
    /\ (b = 1) = (VowelOf(char) \in BASIC_VOWELS)
    /\ (b = 3) = (VowelOf(char) \in ThreeVowelCompounds)
    /\ \A k \in (a + b + 1)..(a + b + f) : jamos[k] \in BASIC_CONSONANTS
    /\ (f = 0) = (FinalOf(char) = "")

\* C25: every jamo decompose_hangul returns is one of the 14 base
\* consonants or 10 base vowels, and for each of the 11172 syllable blocks
\* the returned list is the initial (1 jamo, or 2 identical jamos), then the
\* vowel (1, 2 or 3 jamos, 3 only for ㅙ and ㅞ), then the final (0, 1 or 2
\* jamos).
C25_DecomposeEmitsBaseAtomsInOrder ==
    (ret.op = "decompose_hangul" /\ ret.kind = "jamos")
    => /\ Range(ret.value) \subseteq BASIC_CONSONANTS \cup BASIC_VOWELS
       /\ Cardinality(BASIC_CONSONANTS) = 14 /\ Cardinality(BASIC_VOWELS) = 10
       /\ (Len(ret.args) = 1 /\ 0 <= ret.args[1] /\ ret.args[1] <= LastSyllable)
          => \E a \in 1..2, b \in 1..3, f \in 0..2 :
                InitialVowelFinal(ret.value, ret.args[1], a, b, f)

\* C25 witness: decompose_hangul has returned seven jamos for a syllable
\* block with a doubled initial, the vowel ㅙ or ㅞ and a final of two jamos.
C25_Witness ==
    /\ ret.op = "decompose_hangul" /\ ret.kind = "jamos"
    /\ Len(ret.args) = 1 /\ 0 <= ret.args[1] /\ ret.args[1] <= LastSyllable
    /\ InitialVowelFinal(ret.value, ret.args[1], 2, 3, 2)


\* C26: for every offset c in 0..11171 from 가, the indices decompose_hangul
\* computes are jong = c mod 28, jung = (c div 28) mod 21 and
\* cho = c div 588, with 0 <= cho <= 18, 0 <= jung <= 20 and
\* 0 <= jong <= 27, so that every lookup in CHOSUNG, JUNGSUNG and JONGSUNG
\* is in range, and cho * 588 + jung * 28 + jong = c.
C26_SyllableIndexArithmetic ==
    (/\ ret.op = "decompose_hangul" /\ ret.kind = "jamos"
     /\ Len(ret.args) = 1 /\ 0 <= ret.args[1] /\ ret.args[1] <= LastSyllable)
    => LET c == ret.args[1]
       IN  /\ JongIdx(c) = c % 28
           /\ JungIdx(c) = (c \div 28) % 21
           /\ ChoIdx(c) = c \div 588
           /\ 0 <= ChoIdx(c) /\ ChoIdx(c) <= 18
           /\ 0 <= JungIdx(c) /\ JungIdx(c) <= 20
           /\ 0 <= JongIdx(c) /\ JongIdx(c) <= 27
           /\ ChoIdx(c) + 1 \in DOMAIN CHOSUNG
           /\ JungIdx(c) + 1 \in DOMAIN JUNGSUNG
           /\ JongIdx(c) + 1 \in DOMAIN JONGSUNG
           /\ ChoIdx(c) * 588 + JungIdx(c) * 28 + JongIdx(c) = c
           /\ ret.value = DecomposeChosung(c) \o DecomposeJungsung(c)
                            \o DecomposeJongsung(c)

\* C26 witness: decompose_hangul has returned for 힣, the block of offset
\* 11171, whose indices are the last of each table.
C26_Witness ==
    /\ ret.op = "decompose_hangul" /\ ret.kind = "jamos"
    /\ ret.args = <<LastSyllable>>
    /\ ChoIdx(ret.args[1]) = 18 /\ JungIdx(ret.args[1]) = 20 /\ JongIdx(ret.args[1]) = 27
    /\ ret.value = <<"h", "i", "h">>


\* The turn history of the state is well formed for the word_length of the
\* state.
WellFormedHistory ==
    /\ \A k \in 1..Len(turns) :
          /\ turns[k].turn = k
          /\ Len(turns[k].pattern) = Len(turns[k].jamos)
          /\ Len(turns[k].jamos) = word_length
    /\ turns # <<>> => word_length # None

\* C29: in every state reached by add_turn (accepted or rejected),
\* get_current_candidates and reset_game, the k-th recorded turn has index
\* k, its pattern is as long as its jamo list, its jamo list has word_length
\* jamos, and word_length is set whenever the history is not empty; once a
\* turn is recorded word_length changes only by reset_game, and only
\* reset_game modifies or removes a recorded turn.
C29_TurnHistoryWellFormed ==
    [][/\ WellFormedHistory'
       /\ ret'.op # "reset_game" =>
             /\ turns # <<>> => word_length' = word_length
             /\ Len(turns') >= Len(turns)
             /\ SubSeq(turns', 1, Len(turns)) = turns]_vars

\* C29 witness: with one turn recorded, whose pattern holds a symbol other
\* than G, Y and B, add_turn has rejected a guess of another length.
C29_Witness ==
    /\ Len(turns) = 1
    /\ ~AllTurnsAccepted
    /\ WellFormedHistory
    /\ ret.op = "add_turn" /\ ret.kind = "ValueError: word length"


(***************************************************************************)
(* Sessions whose feedback is the scoring of the guesses against a secret  *)
(***************************************************************************)
\* The feedback of the game for a guess against a secret of the same
\* length: Green where the jamos agree; among the other positions, from the
\* left, a jamo is Yellow as long as the secret still has a copy of it that
\* no Green or earlier Yellow accounts for, and Black otherwise.
Score(guess, secret) ==
    [i \in 1..Len(guess) |->
        IF guess[i] = secret[i]
        THEN "G"
        ELSE IF Cardinality({j \in 1..(i - 1) :
                                guess[j] = guess[i] /\ guess[j] # secret[j]})
                < JamoCount(secret, guess[i])
                    - Cardinality({j \in 1..Len(guess) :
                                      guess[j] = guess[i] /\ guess[j] = secret[j]})
             THEN "Y"
             ELSE "B"]

\* The secret words: 간, 각, 낙, 난, 갈, 국군, 군국, 만약 and 간단.
SecretWords ==
    {<<Gan>>, <<Gag>>, <<Nag>>, <<Nan>>, <<Gal>>,
     <<Gug, Gun>>, <<Gun, Gug>>, <<Man, Yag>>, <<Gan, Dan>>}

\* The guesses of a scored session.
ScoredGuesses ==
    {<<Gag>>, <<Gan>>, <<Nan>>, <<Nag>>, <<Gug, Gun>>, <<Gun, Gug>>, <<Gan, Dan>>}

\* The primary corpora of a scored session; 낙, 갈 and 만약 are in neither.
ScoredTables ==
    {{create_word_data(<<Gan>>, 5), create_word_data(<<Gag>>, 3),
      create_word_data(<<Nan>>, 3), create_word_data(<<Gug, Gun>>, 2),
      create_word_data(<<Gun, Gug>>, 2), create_word_data(<<Gan, Dan>>, 1)}}

\* Every recorded turn carries the scoring of its guess against the secret.
ScoredAgainst(secret) ==
    \A k \in 1..Len(turns) :
        /\ Len(turns[k].jamos) = Len(decompose_hangul(secret))
        /\ turns[k].pattern = Score(turns[k].jamos, decompose_hangul(secret))

InitScored ==
    /\ db \in ScoredTables
    /\ db_fallback \in {NoFallback} \cup
                       {[present |-> TRUE, table |-> t] : t \in FallbackTables}
    /\ turns = <<>>
    /\ word_length = None
    /\ green_positions = EmptyDict
    /\ yellow_jamos = {}
    /\ yellow_excluded_positions = EmptyDict
    /\ black_positions = EmptyDict
    /\ pure_black_jamos = {}
    /\ jamo_exact_counts = EmptyDict
    /\ ret = Returned("__init__", "none", <<>>)
    /\ other_session = NoOtherSession

\* add_turn called with the feedback of the game: the scoring of the guess
\* against a secret that all the feedback so far is the scoring against.
add_scored_turn(guess_word, secret) ==
    /\ Len(decompose_hangul(guess_word)) = Len(decompose_hangul(secret))
    /\ ScoredAgainst(secret)
    /\ add_turn(guess_word, Score(decompose_hangul(guess_word), decompose_hangul(secret)))

NextScored ==
    \/ reset_game
    \/ get_current_candidates
    \/ \E guess_word \in ScoredGuesses, secret \in SecretWords :
            add_scored_turn(guess_word, secret)

SpecScored == InitScored /\ [][NextScored]_vars

\* C28: when every turn's pattern is the duplicate-aware scoring of its
\* guess against one secret S of the guesses' length, S satisfies the
\* conditions after any sequence of such turns, so that the word of S, when
\* it is in the primary corpus, is in every returned candidate list; and no
\* pure black jamo is a required Yellow jamo or has an exact count, and no
\* required Yellow jamo has an exact count of zero.
C28_SecretAlwaysMatches ==
    \A secret \in SecretWords :
        (turns # <<>> /\ ScoredAgainst(secret))
        => /\ CheckWordConditions(Conditions, decompose_hangul(secret))
           /\ (ret.kind = "candidates" /\ secret \in {r.word : r \in db})
              => secret \in Range(ret.value)
           /\ pure_black_jamos \cap yellow_jamos = {}
           /\ pure_black_jamos \cap DOMAIN jamo_exact_counts = {}
           /\ \A jamo \in yellow_jamos \cap DOMAIN jamo_exact_counts :
                  jamo_exact_counts[jamo] >= 1

\* C28 witness: two turns scored against 국군 are recorded, the conditions
\* hold an exact count, a pure black jamo and a Green position, and the
\* returned candidate list holds 국군.
C28_Witness ==
    /\ Len(turns) = 2
    /\ turns[1].word # turns[2].word
    /\ ScoredAgainst(<<Gug, Gun>>)
    /\ jamo_exact_counts # EmptyDict
    /\ pure_black_jamos # {}
    /\ green_positions # EmptyDict
    /\ ret.kind = "candidates"
    /\ <<Gug, Gun>> \in Range(ret.value)


(***************************************************************************)
(* Guesses that hold characters other than syllable blocks                 *)
(***************************************************************************)
\* The guesses: 간, 간a, a각 and a.
StrayGuesses == {<<Gan>>, <<Gan, LetterA>>, <<LetterA, Gag>>, <<LetterA>>}

StrayPatterns == {<<"G", "G", "B">>, <<"B", "G", "B">>, <<"G", "G">>, <<>>}

NextStray ==
    \/ reset_game
    \/ get_current_candidates
    \/ \E guess_word \in StrayGuesses, result_pattern \in StrayPatterns :
            add_turn(guess_word, result_pattern)

SpecStray == Init /\ [][NextStray]_vars

\* The word without its characters outside 가..힣.
SyllablesOf(word) == SelectSeq(word, IsSyllable)

\* C30: decompose_hangul returns for any string the decomposition of the
\* string without its characters outside 가..힣, and add_turn, which checks
\* no Hangul validity, treats a guess with such characters as the guess
\* without them: the word length and pattern length checks compare with the
\* number of jamos of the remaining syllables, no other rejection occurs,
\* and an accepted turn records the guess as given with the jamos of the
\* remaining syllables and updates the conditions from these.
C30_StrayCharactersDropped ==
    [][\A guess_word \in StrayGuesses, result_pattern \in StrayPatterns :
          add_turn(guess_word, result_pattern) =>
            LET clean == SyllablesOf(guess_word)
                jamos == decompose_hangul(clean)
            IN  /\ decompose_hangul(guess_word) = jamos
                /\ Len(jamos) >= 2 * Len(clean)
                /\ (ret'.kind = "ValueError: word length")
                      = (word_length # None /\ word_length # Len(jamos))
                /\ (ret'.kind = "ValueError: pattern length")
                      = (/\ word_length \in {None, Len(jamos)}
                         /\ Len(result_pattern) # Len(jamos))
                /\ (ret'.kind = "candidates")
                      = (/\ word_length \in {None, Len(jamos)}
                         /\ Len(result_pattern) = Len(jamos))
                /\ ret'.kind = "candidates" =>
                      /\ turns' = Append(turns, TurnInfo(Len(turns) + 1, guess_word,
                                                         jamos, result_pattern))
                      /\ word_length' = Len(jamos)
                      /\ Conditions' = UpdateConditions(Conditions, jamos, result_pattern)
                      /\ ret'.value = FindCandidates(db, db_fallback, Len(jamos), Conditions')
      ]_vars

\* C30 witness: the guesses 간a and a각 have both been accepted as guesses
\* of three jamos, and a candidate list with a word has been returned.
C30_Witness ==
    /\ Len(turns) = 2
    /\ turns[1].word = <<Gan, LetterA>> /\ turns[1].jamos = <<"g", "a", "n">>
    /\ turns[2].word = <<LetterA, Gag>> /\ turns[2].jamos = <<"g", "a", "g">>
    /\ word_length = 3
    /\ ret.op = "add_turn" /\ ret.kind = "candidates" /\ ret.value # <<>>


(***************************************************************************)
(* Two GameEngine objects over the same databases                          *)
(***************************************************************************)
\* The fields of the engine the calls are made on, with the outcome of the
\* last call made on it.
ThisSession ==
    [turns |-> turns, word_length |-> word_length, conditions |-> Conditions,
     ret |-> ret]

TwoSessionGuesses == {<<Gag>>, <<Gan>>}

TwoSessionPatterns == {<<"G", "G", "B">>, <<"B", "G", "B">>}

\* Two engines are constructed over the same database files.
InitTwoSessions ==
    /\ db = {create_word_data(<<Gan>>, 5), create_word_data(<<Gag>>, 3),
             create_word_data(<<Nan>>, 3), create_word_data(<<Nag>>, 1)}
    /\ db_fallback = [present |-> TRUE,
                      table |-> {create_word_data(<<Gal>>, 4),
                                 create_word_data(<<Gad>>, 4)}]
    /\ turns = <<>>
    /\ word_length = None
    /\ green_positions = EmptyDict
    /\ yellow_jamos = {}
    /\ yellow_excluded_positions = EmptyDict
    /\ black_positions = EmptyDict
    /\ pure_black_jamos = {}
    /\ jamo_exact_counts = EmptyDict
    /\ ret = Returned("__init__", "none", <<>>)
    /\ other_session = NewSession

\* The host makes its next call on the other engine.
switch_session ==
    /\ other_session # NoOtherSession
    /\ other_session' = ThisSession
    /\ turns' = other_session.turns
    /\ word_length' = other_session.word_length
    /\ SetConditions(other_session.conditions)
    /\ ret' = other_session.ret
    /\ UNCHANGED <<db, db_fallback>>

NextTwoSessions ==
    \/ reset_game
    \/ get_current_candidates
    \/ \E guess_word \in TwoSessionGuesses, result_pattern \in TwoSessionPatterns :
            add_turn(guess_word, result_pattern)
    \/ switch_session

SpecTwoSessions == InitTwoSessions /\ [][NextTwoSessions]_vars

\* C27: with two sessions over the same corpus and their add_turn,
\* reset_game and get_current_candidates calls interleaved in any order,
\* every call on one session leaves the turn history, word_length and
\* condition maps of the other as they were, every returned candidate list
\* is the one a session that ran the same turns alone returns, and no call
\* modifies the corpus.
C27_SessionIsolation ==
    [][/\ UNCHANGED <<db, db_fallback>>
       /\ switch_session \/ other_session' = other_session
       /\ (ret'.kind = "candidates" /\ turns' # <<>>) =>
             ret'.value = FindCandidates(db, db_fallback, Len(turns'[1].jamos),
                                         Replay(turns'))
       /\ (ret'.kind = "candidates" /\ turns' = <<>>) => ret'.value = <<>>
      ]_vars

\* C27 witness: both sessions hold turns, their histories and conditions
\* differ, and the session the last call was made on has returned
\* candidates that differ from those the other session last returned.
C27_Witness ==
    /\ turns # <<>>
    /\ other_session.turns # <<>>
    /\ other_session.turns # turns
    /\ other_session.conditions # Conditions
    /\ ret.op = "add_turn" /\ ret.kind = "candidates"
    /\ other_session.ret.kind = "candidates"
    /\ other_session.ret.value # ret.value
    /\ ret.value # <<>>

====
